---- MODULE Spec2Model ----
(***************************************************************************)
(* scripts/upscale-app-icon.py: one run of main() after another on one     *)
(* file system.  A run takes sys.argv, acquires an image from a local path *)
(* or a URL, decodes it to RGBA, resizes it to 1024x1024 with the NEAREST  *)
(* filter and saves it at ICON_PATH.                                       *)
(*                                                                         *)
(* Strings are sequences of letters.  The letters are " ", "/", the two    *)
(* scheme words "http:" and "https:", and file-name words: str.strip,      *)
(* str.startswith and the os.path functions are computed letter by letter  *)
(* on these sequences.  The model covers main(); the import of Pillow      *)
(* (lines 12-16) is taken to have succeeded.                               *)
(*                                                                         *)
(* Spec runs the tool up to MaxRuns times on arguments of every kind.      *)
(* SpecResize runs it once on a local image of each size in ResizeSizes    *)
(* and is where the pixels of the resized image are compared.              *)
(***************************************************************************)
EXTENDS Integers, Sequences, FiniteSets, TLC

(* ------------------------------ bounds -------------------------------- *)
MaxRuns == 2      \* runs of the tool in one behaviour
MaxPad  == 1      \* blanks before and after the argument's text
MaxDim  == 3      \* widths and heights 1..MaxDim of the small source images

(* -------------------------- program constants ------------------------- *)
OUT_SIZE == 1024  \* img.resize((1024, 1024), ...)

(* ------------------------------ strings ------------------------------- *)
SP  == " "
SEP == "/"

HTTP_PREFIX  == <<"http:", SEP, SEP>>
HTTPS_PREFIX == <<"https:", SEP, SEP>>

startswith(s, p) == Len(s) >= Len(p) /\ SubSeq(s, 1, Len(p)) = p

RECURSIVE lstrip(_)
lstrip(s) == IF s # <<>> /\ Head(s) = SP THEN lstrip(Tail(s)) ELSE s

RECURSIVE rstrip(_)
rstrip(s) ==
    IF s # <<>> /\ s[Len(s)] = SP THEN rstrip(SubSeq(s, 1, Len(s) - 1)) ELSE s

strip(s) == rstrip(lstrip(s))

(* ------------------------------ os.path ------------------------------- *)
isabs(p) == p # <<>> /\ Head(p) = SEP

\* os.path.join of two parts
join2(a, b) ==
    IF isabs(b) THEN b
    ELSE IF a = <<>> \/ a[Len(a)] = SEP THEN a \o b
    ELSE a \o <<SEP>> \o b

RECURSIVE join(_)
join(parts) ==
    IF Len(parts) = 1 THEN parts[1]
    ELSE join(<<join2(parts[1], parts[2])>> \o SubSeq(parts, 3, Len(parts)))

\* the components of p between separators, empty ones included
RECURSIVE split(_, _)
split(p, cur) ==
    IF p = <<>> THEN <<cur>>
    ELSE IF Head(p) = SEP THEN <<cur>> \o split(Tail(p), <<>>)
    ELSE split(Tail(p), Append(cur, Head(p)))

\* normpath's walk over the components: "" and "." dropped, ".." pops
RECURSIVE collapse(_, _, _)
collapse(comps, acc, abs) ==
    IF comps = <<>> THEN acc
    ELSE LET c == Head(comps) IN
         IF c = <<>> \/ c = <<".">> THEN collapse(Tail(comps), acc, abs)
         ELSE IF c = <<"..">> THEN
              IF acc # <<>> /\ acc[Len(acc)] # <<"..">>
                  THEN collapse(Tail(comps), SubSeq(acc, 1, Len(acc) - 1), abs)
              ELSE IF abs THEN collapse(Tail(comps), acc, abs)
              ELSE collapse(Tail(comps), Append(acc, c), abs)
         ELSE collapse(Tail(comps), Append(acc, c), abs)

RECURSIVE unsplit(_)
unsplit(comps) ==
    IF comps = <<>> THEN <<>>
    ELSE IF Len(comps) = 1 THEN comps[1]
    ELSE comps[1] \o <<SEP>> \o unsplit(Tail(comps))

normpath(p) ==
    LET body == unsplit(collapse(split(p, <<>>), <<>>, isabs(p))) IN
    IF isabs(p) THEN <<SEP>> \o body
    ELSE IF body = <<>> THEN <<".">>
    ELSE body

RECURSIVE lastsep(_)
lastsep(p) ==
    IF p = <<>> THEN 0 ELSE IF p[Len(p)] = SEP THEN Len(p)
    ELSE lastsep(SubSeq(p, 1, Len(p) - 1))

\* os.path.dirname: the head up to the last separator, without that
\* separator unless the head is the root
dirname(p) ==
    LET i == lastsep(p) IN
    IF i = 0 THEN <<>> ELSE IF i = 1 THEN <<SEP>> ELSE SubSeq(p, 1, i - 1)

abspath(p, cwd) == normpath(join2(cwd, p))

(* --------------------------- file contents ---------------------------- *)
\* A stored file is a decodable image (its size, its mode and what its
\* pixels show), a PNG written by Image.save, bytes no decoder accepts, or
\* the truncated remains of a write that failed.
Modes == {"RGB", "RGBA"}

ImageFile(w, h, mode, pat) ==
    [kind |-> "image", w |-> w, h |-> h, mode |-> mode, pat |-> pat]
BYTES     == [kind |-> "bytes"]
TRUNCATED == [kind |-> "truncated"]
EMPTY     == [kind |-> "empty"]
PngFile(im) == [kind |-> "png", image |-> im]

None == [none |-> TRUE]

\* the pixel a stored image shows at column i, row j
FilePixel(f, i, j) ==
    LET rgb == IF f.pat = "solid" THEN <<7, 7>> ELSE <<i, j>>
        a   == IF f.pat = "solid" THEN 128 ELSE (i + j) % 2
    IN  IF f.mode = "RGBA" THEN [rgb |-> rgb, a |-> a] ELSE [rgb |-> rgb]

(* ------------------------------- Pillow ------------------------------- *)
decodable(c) == c.kind = "image"

\* Image.open(path): the image as stored
open(f) == [w |-> f.w, h |-> f.h, mode |-> f.mode, file |-> f, conv |-> FALSE]

\* (mutant) convert that leaves the mode as it was
convert_KeepMode(im, mode) == im

\* Image.convert("RGBA"): same size, every pixel given an alpha channel
convert(im, mode) == [im EXCEPT !.mode = mode, !.conv = TRUE]

ToRGBA(p) == IF "a" \in DOMAIN p THEN p ELSE [rgb |-> p.rgb, a |-> 255]

getpixel(im, i, j) ==
    IF im.conv THEN ToRGBA(FilePixel(im.file, i, j)) ELSE FilePixel(im.file, i, j)

\* (mutant) sampling at the corner of the output pixel, floor(x * m / n)
NearestIndex_Corner(x, m, n) == (x * m) \div n

\* Image.NEAREST: output index x of n takes the source index under the centre
\* of output pixel x, floor((x + 1/2) * m / n), of a source m wide
NearestIndex(x, m, n) == ((2 * x + 1) * m) \div (2 * n)

\* Image.resize(size, Image.NEAREST): an image of the given size in the
\* source's mode, each pixel copied from the source
resize(im, size) ==
    [w |-> size[1], h |-> size[2], mode |-> im.mode, src |-> im]

resizedpixel(r, x, y) ==
    getpixel(r.src, NearestIndex(x, r.src.w, r.w), NearestIndex(y, r.src.h, r.h))

(* --------------------------- the file system -------------------------- *)
ROOT    == <<SEP, "r">>
SCRIPTS == ROOT \o <<SEP, "scripts">>
TMPDIR  == <<SEP, "tmp">>
SCRIPT  == "upscale-app-icon.py"

\* (mutant) the icon path taken from the working directory
ICON_PATH_Cwd(file) ==
    join(<<<<"..">>, <<"frontend">>, <<"ios">>, <<"App">>, <<"App">>,
           <<"Assets.xcassets">>, <<"AppIcon.appiconset">>, <<"AppIcon-512@2x.png">>>>)

\* ICON_PATH, from the value of __file__
ICON_PATH(file) ==
    join(<<dirname(file), <<"..">>, <<"frontend">>, <<"ios">>, <<"App">>, <<"App">>,
           <<"Assets.xcassets">>, <<"AppIcon.appiconset">>, <<"AppIcon-512@2x.png">>>>)

\* p and every directory above it
RECURSIVE ancestors(_)
ancestors(p) == IF p = <<SEP>> \/ p = <<>> THEN {<<SEP>>} ELSE {p} \cup ancestors(dirname(p))

\* how the script can be started: the working directory and __file__
\* (absolute, or as typed on the command line before Python 3.9)
Invocations ==
    { [cwd |-> ROOT,    file |-> SCRIPTS \o <<SEP, SCRIPT>>],
      [cwd |-> ROOT,    file |-> <<"scripts", SEP, SCRIPT>>],
      [cwd |-> SCRIPTS, file |-> <<SCRIPT>>] }

RECURSIVE blanks(_)
blanks(n) == IF n = 0 THEN <<>> ELSE <<SP>> \o blanks(n - 1)

Pads == { blanks(n) : n \in 0..MaxPad }

URL_A == HTTP_PREFIX \o <<"u">>
URL_B == HTTPS_PREFIX \o <<"u">>

Bodies == { <<"a">>, <<"b">>, URL_A, URL_B, <<"http:", SEP, "u">>, <<>> }

\* the argument as typed: a text with blanks before it or after it
ArgStrings == { l \o b : l \in Pads, b \in Bodies } \cup { b \o t : b \in Bodies, t \in Pads }

\* sys.argv: the script and zero, one or two arguments
Argvs ==
    {<<SCRIPT>>} \cup { <<SCRIPT, a>> : a \in ArgStrings }
                 \cup { <<SCRIPT, a, <<"a">>>> : a \in {<<"a">>, URL_A} }

\* the local images of the runs: w by h with w + h = MaxDim + 1
SmallImages ==
    { ImageFile(w, MaxDim + 1 - w, m, "grid") : w \in 1..MaxDim, m \in Modes }

\* source sizes below, at and above the output size
SrcDims == (1..MaxDim) \cup {64, OUT_SIZE, 2 * OUT_SIZE}

\* the sizes the resize is tried on: square, narrow and tall, wide and low
ResizeSizes ==
    { <<d, d>> : d \in SrcDims }
      \cup { <<d, 2 * OUT_SIZE>> : d \in 1..MaxDim }
      \cup { <<OUT_SIZE, d>> : d \in 1..MaxDim }

\* the images the resize is tried on
ResizeImages ==
    { ImageFile(s[1], s[2], "RGB", "grid") : s \in ResizeSizes }
      \cup { ImageFile(d, MaxDim + 1 - d, "RGBA", "solid") : d \in 1..MaxDim }
      \cup { ImageFile(2 * OUT_SIZE, 64, "RGB", "solid") }

\* what the URL serves: nothing (the fetch fails), an image, or other bytes
REMOTE_IMAGE == ImageFile(2 * OUT_SIZE, OUT_SIZE, "RGB", "grid")
Responses == { None, REMOTE_IMAGE, BYTES }

OLD_ICON == ImageFile(OUT_SIZE, OUT_SIZE, "RGB", "solid")

FILE_A == ROOT \o <<SEP, "a">>
FILE_B == ROOT \o <<SEP, "b", SP>>
DEST   == ROOT \o <<SEP, "frontend", SEP, "ios", SEP, "App", SEP, "App", SEP,
                    "Assets.xcassets", SEP, "AppIcon.appiconset", SEP,
                    "AppIcon-512@2x.png">>

BaseDirs == {<<SEP>>, ROOT, SCRIPTS, TMPDIR}

put(fs, p, c) == (p :> c) @@ fs
remove(fs, p) == [q \in DOMAIN fs \ {p} |-> fs[q]]
isfile(fs, p) == p \in DOMAIN fs

(* ------------------------------- state -------------------------------- *)
VARIABLES
    files,      \* the regular files: path -> content
    dirs,       \* the directories
    runs,       \* the number of the current run
    argv, cwd, file,                \* sys.argv, the working directory, __file__
    pc,         \* where main() is
    src, path, img, resized, out_path,     \* main's locals
    exc,        \* the exception in flight through the finally clause
    stdout, stderr, exitcode,
    fetched,    \* urlretrieve was called in this run
    tmpname,    \* the temporary file this run created, or <<>>
    saved,      \* Image.save returned in this run
    source,     \* the branch of line 36 this run took: "url" or "local"
    torn,       \* a save has failed part-way since the last one that returned
    files0, dirs0,      \* the file system when this run started
    lastSaved   \* the image saved by the latest run whose save returned

vars == <<files, dirs, runs, argv, cwd, file, pc, src, path, img, resized,
          out_path, exc, stdout, stderr, exitcode, fetched, tmpname, saved,
          source, torn, files0, dirs0, lastSaved>>

fsvars    == <<files, dirs>>
localvars == <<src, path, img, resized, out_path, exc>>
inputvars == <<runs, argv, cwd, file, files0, dirs0>>

RUNNING == -1
NoExc == ""

\* (mutant) only the http scheme recognised
IsUrl_HttpOnly(s) == startswith(s, HTTP_PREFIX)

IsUrl(s) == startswith(s, HTTP_PREFIX) \/ startswith(s, HTTPS_PREFIX)

USAGE == <<"Usage: python3 upscale-app-icon.py <path_or_url>">>
NotAFile(p) == <<"Not a file: ">> \o p
Traceback(e) == <<"Traceback (most recent call last): ", e>>
\* (mutant) the message without the path
SavedLine_NoPath(p) == <<"Saved 1024x1024 app icon">>

SavedLine(p) == <<"Saved 1024x1024 app icon to ">> \o p

TmpName(n) == TMPDIR \o <<SEP, "tmp", ToString(n), ".png">>

StartRun(av, inv) ==
    /\ argv = av /\ cwd = inv.cwd /\ file = inv.file
    /\ pc = "start"
    /\ src = <<>> /\ path = <<>> /\ img = None /\ resized = None
    /\ out_path = <<>> /\ exc = NoExc
    /\ stdout = <<>> /\ stderr = <<>> /\ exitcode = RUNNING
    /\ fetched = FALSE /\ tmpname = <<>> /\ saved = FALSE /\ source = ""

\* a file system holding content a at FILE_A and FILE_B and, with old, an
\* icon from before; then the first run starts
InitFrom(contents, argvs, invs, olds) ==
    /\ \E a \in contents :
       \E old \in olds :
          /\ files = IF old
                       THEN put(put(put(<<>>, FILE_A, a), FILE_B, a), DEST, OLD_ICON)
                       ELSE put(put(<<>>, FILE_A, a), FILE_B, a)
          /\ dirs = IF old THEN BaseDirs \cup ancestors(dirname(DEST)) ELSE BaseDirs
    /\ runs = 1
    /\ \E av \in argvs, inv \in invs : StartRun(av, inv)
    /\ files0 = files /\ dirs0 = dirs
    /\ lastSaved = None
    /\ torn = FALSE

Init == InitFrom(SmallImages \cup {BYTES}, Argvs, Invocations, BOOLEAN)

\* (mutant) the message, and exit status 0
Exit1_Status0(msg) ==
    /\ stderr' = Append(stderr, msg)
    /\ exitcode' = 0
    /\ pc' = "done"

\* sys.exit(1) after a message, or an exception nobody catches: the
\* interpreter prints the traceback to stderr and exits with status 1
Exit1(msg) ==
    /\ stderr' = Append(stderr, msg)
    /\ exitcode' = 1
    /\ pc' = "done"

Raise(e) == Exit1(Traceback(e))

\* (mutant) the argument count checked with < instead of !=
CheckArgs_AtLeastOne ==
    /\ pc = "start"
    /\ IF Len(argv) < 2
         THEN /\ Exit1(USAGE)
              /\ UNCHANGED src
         ELSE /\ src' = strip(argv[2])
              /\ pc' = "acquire"
              /\ UNCHANGED <<stderr, exitcode>>
    /\ UNCHANGED <<fsvars, inputvars, path, img, resized, out_path, exc,
                   stdout, fetched, tmpname, saved, lastSaved, torn, source>>

\* lines 32-35
CheckArgs ==
    /\ pc = "start"
    /\ IF Len(argv) # 2
         THEN /\ Exit1(USAGE)
              /\ UNCHANGED src
         ELSE /\ src' = strip(argv[2])
              /\ pc' = "acquire"
              /\ UNCHANGED <<stderr, exitcode>>
    /\ UNCHANGED <<fsvars, inputvars, path, img, resized, out_path, exc,
                   stdout, fetched, tmpname, saved, lastSaved, torn, source>>

\* lines 36-37: NamedTemporaryFile(suffix=".png", delete=False)
CreateTemp ==
    /\ pc = "acquire"
    /\ IsUrl(src)
    /\ source' = "url"
    /\ \/ /\ files' = put(files, TmpName(runs), EMPTY)
          /\ tmpname' = TmpName(runs)
          /\ pc' = "fetch"
          /\ UNCHANGED <<stderr, exitcode>>
       \/ /\ Raise("OSError")
          /\ UNCHANGED <<files, tmpname>>
    /\ UNCHANGED <<dirs, inputvars, localvars, stdout, fetched, saved, lastSaved, torn>>

\* lines 38-39: urlretrieve(src, f.name); leaving the with block closes
\* the file and, as delete=False, keeps it
Fetch ==
    /\ pc = "fetch"
    /\ fetched' = TRUE
    /\ \E r \in Responses :
         IF r = None
           THEN /\ Raise("URLError")
                /\ UNCHANGED <<files, path>>
           ELSE /\ files' = put(files, tmpname, r)
                /\ path' = tmpname
                /\ pc' = "decode"
                /\ UNCHANGED <<stderr, exitcode>>
    /\ UNCHANGED <<dirs, inputvars, src, img, resized, out_path, exc, stdout,
                   tmpname, saved, lastSaved, torn, source>>

\* lines 45-48
ResolveLocal ==
    /\ pc = "acquire"
    /\ ~IsUrl(src)
    /\ source' = "local"
    /\ path' = abspath(src, cwd)
    /\ IF ~isfile(files, path')
         THEN Exit1(NotAFile(path'))
         ELSE /\ pc' = "decode"
              /\ UNCHANGED <<stderr, exitcode>>
    /\ UNCHANGED <<fsvars, inputvars, src, img, resized, out_path, exc, stdout,
                   fetched, tmpname, saved, lastSaved, torn>>

\* (mutant) the destination opened for writing before the decoding, so
\* that a decoding failure leaves it truncated
Decode_AfterOpeningOutput ==
    /\ pc = "decode"
    /\ IF decodable(files[path])
         THEN /\ img' = convert(open(files[path]), "RGBA")
              /\ pc' = IF IsUrl(src) THEN "unlink" ELSE "mkdirs"
              /\ UNCHANGED <<exc, stderr, exitcode, fsvars>>
         ELSE /\ files' = put(files, abspath(ICON_PATH(file), cwd), TRUNCATED)
              /\ UNCHANGED dirs
              /\ IF IsUrl(src)
                   THEN /\ exc' = "UnidentifiedImageError"
                        /\ pc' = "unlink"
                        /\ UNCHANGED <<img, stderr, exitcode>>
                   ELSE /\ Raise("UnidentifiedImageError")
                        /\ UNCHANGED <<img, exc>>
    /\ UNCHANGED <<inputvars, src, path, resized, out_path, stdout,
                   fetched, tmpname, saved, lastSaved, torn, source>>

\* line 41 inside try, or line 49: Image.open(path).convert("RGBA")
Decode ==
    /\ pc = "decode"
    /\ IF decodable(files[path])
         THEN /\ img' = convert(open(files[path]), "RGBA")
              /\ pc' = IF IsUrl(src) THEN "unlink" ELSE "mkdirs"
              /\ UNCHANGED <<exc, stderr, exitcode>>
         ELSE IF IsUrl(src)
           THEN /\ exc' = "UnidentifiedImageError"
                /\ pc' = "unlink"
                /\ UNCHANGED <<img, stderr, exitcode>>
           ELSE /\ Raise("UnidentifiedImageError")
                /\ UNCHANGED <<img, exc>>
    /\ UNCHANGED <<fsvars, inputvars, src, path, resized, out_path, stdout,
                   fetched, tmpname, saved, lastSaved, torn, source>>

\* (mutant) the unlink after the try block instead of in a finally clause
Unlink_NoFinally ==
    /\ pc = "unlink"
    /\ IF exc # NoExc
         THEN /\ Raise(exc)
              /\ UNCHANGED files
         ELSE /\ files' = remove(files, path)
              /\ pc' = "mkdirs"
              /\ UNCHANGED <<stderr, exitcode>>
    /\ UNCHANGED <<dirs, inputvars, localvars, stdout, fetched, tmpname, saved,
                   lastSaved, torn, source>>

\* lines 42-43: finally: os.unlink(path), then the exception goes on
Unlink ==
    /\ pc = "unlink"
    /\ files' = remove(files, path)
    /\ IF exc # NoExc
         THEN Raise(exc)
         ELSE /\ pc' = "mkdirs"
              /\ UNCHANGED <<stderr, exitcode>>
    /\ UNCHANGED <<dirs, inputvars, localvars, stdout, fetched, tmpname, saved,
                   lastSaved, torn, source>>

\* lines 50-51: os.makedirs(dirname(out_path), exist_ok=True); it can fail
\* only where a directory is missing, and then after making some of them
MakeDirs ==
    /\ pc = "mkdirs"
    /\ out_path' = abspath(ICON_PATH(file), cwd)
    /\ LET need == ancestors(dirname(out_path')) IN
       \/ /\ dirs' = dirs \cup need
          /\ pc' = "resize"
          /\ UNCHANGED <<stderr, exitcode>>
       \/ /\ need \ dirs # {}
          /\ \E d \in need \ dirs : dirs' = dirs \cup (ancestors(d) \ {d})
          /\ Raise("OSError")
    /\ UNCHANGED <<files, inputvars, src, path, img, resized, exc, stdout,
                   fetched, tmpname, saved, lastSaved, torn, source>>

\* line 52
Resize ==
    /\ pc = "resize"
    /\ resized' = resize(img, <<OUT_SIZE, OUT_SIZE>>)
    /\ pc' = "save"
    /\ UNCHANGED <<fsvars, inputvars, src, path, img, out_path, exc, stdout,
                   stderr, exitcode, fetched, tmpname, saved, lastSaved, torn, source>>

\* line 53: Image.save opens out_path for writing, which empties it, and
\* encodes into it.  The open can fail (nothing changes); the write can
\* fail (the file stays truncated, or, where the save made it, Pillow may
\* remove it again)
Save ==
    /\ pc = "save"
    /\ \/ /\ files' = put(files, out_path, PngFile(resized))
          /\ saved' = TRUE
          /\ lastSaved' = resized
          /\ torn' = FALSE
          /\ pc' = "print"
          /\ UNCHANGED <<stderr, exitcode>>
       \/ /\ Raise("PermissionError")
          /\ UNCHANGED <<files, lastSaved, saved, torn>>
       \/ /\ files' = put(files, out_path, TRUNCATED)
          /\ torn' = TRUE
          /\ Raise("OSError")
          /\ UNCHANGED <<lastSaved, saved>>
       \/ /\ ~isfile(files, out_path)
          /\ torn' = TRUE
          /\ Raise("OSError")
          /\ UNCHANGED <<files, lastSaved, saved>>
    /\ UNCHANGED <<dirs, inputvars, localvars, stdout, fetched, tmpname, source>>

\* line 54, and main() returning
PrintSaved ==
    /\ pc = "print"
    /\ stdout' = Append(stdout, SavedLine(out_path))
    /\ exitcode' = 0
    /\ pc' = "done"
    /\ UNCHANGED <<fsvars, inputvars, localvars, stderr, fetched, tmpname,
                   saved, lastSaved, torn, source>>

\* the tool is started again, on the file system the last run left
NewRun ==
    /\ pc = "done"
    /\ runs < MaxRuns
    /\ runs' = runs + 1
    /\ files0' = files /\ dirs0' = dirs
    /\ \E av \in Argvs, inv \in Invocations :
         /\ argv' = av /\ cwd' = inv.cwd /\ file' = inv.file
    /\ pc' = "start"
    /\ src' = <<>> /\ path' = <<>> /\ img' = None /\ resized' = None
    /\ out_path' = <<>> /\ exc' = NoExc
    /\ stdout' = <<>> /\ stderr' = <<>> /\ exitcode' = RUNNING
    /\ fetched' = FALSE /\ tmpname' = <<>> /\ saved' = FALSE /\ source' = ""
    /\ UNCHANGED <<fsvars, lastSaved, torn>>

Next ==
    \/ CheckArgs
    \/ CreateTemp
    \/ Fetch
    \/ ResolveLocal
    \/ Decode
    \/ Unlink
    \/ MakeDirs
    \/ Resize
    \/ Save
    \/ PrintSaved
    \/ NewRun

Spec == Init /\ [][Next]_vars

(* ---------------- the resize alone, on sources of many sizes ---------- *)
InitResize ==
    InitFrom(ResizeImages, {<<SCRIPT, <<"a">>>>},
             {[cwd |-> ROOT, file |-> SCRIPTS \o <<SEP, SCRIPT>>]}, {FALSE})

NextResize ==
    \/ CheckArgs
    \/ ResolveLocal
    \/ Decode
    \/ MakeDirs
    \/ Resize
    \/ Save
    \/ PrintSaved

SpecResize == InitResize /\ [][NextResize]_vars

(* ------------------------------ the claims ---------------------------- *)
Done == pc = "done"

Coords == 0..(OUT_SIZE - 1)

\* the destination file is the same in fs1 as in fs2
SameDest(fs1, fs2) ==
    /\ isfile(fs1, DEST) <=> isfile(fs2, DEST)
    /\ isfile(fs1, DEST) => fs1[DEST] = fs2[DEST]

\* the file at DEST is a PNG of an RGBA image of OUT_SIZE by OUT_SIZE
DestIsIcon ==
    /\ isfile(files, DEST)
    /\ files[DEST].kind = "png"
    /\ files[DEST].image.w = OUT_SIZE
    /\ files[DEST].image.h = OUT_SIZE
    /\ files[DEST].image.mode = "RGBA"
    /\ \A c \in {<<0, 0>>, <<OUT_SIZE - 1, OUT_SIZE - 1>>} :
          "a" \in DOMAIN resizedpixel(files[DEST].image, c[1], c[2])

\* C1: when a run that took the URL branch has ended, on whichever path,
\* the temporary file it created no longer exists.
C1_TempGoneAtEveryExit ==
    (Done /\ tmpname # <<>>) => ~isfile(files, tmpname)

\* C2: once the fetch has succeeded, the temporary file is gone when the
\* run ends, whether the later steps fail or not, and it is gone at every
\* step after the finally clause; the destination is only ever written
\* while it does not exist.
C2_TempRemovedAfterFetch ==
    /\ [](((path = tmpname /\ tmpname # <<>>)
            /\ pc \in {"mkdirs", "resize", "save", "print", "done"})
              => ~isfile(files, tmpname))
    /\ [][ ~SameDest(files', files) =>
              (tmpname = <<>> \/ ~isfile(files, tmpname)) ]_vars

C2_Witness ==
    /\ Done /\ path = tmpname /\ tmpname # <<>>
    /\ exitcode = 1 /\ resized # None

\* C3 as stated: a run given a local path to a decodable image ends
\* successfully with an RGBA image of 1024 by 1024 at the destination.
C3_LocalImageAlwaysSucceeds ==
    (/\ Done
     /\ Len(argv) = 2
     /\ ~IsUrl(argv[2])
     /\ isfile(files0, abspath(argv[2], cwd))
     /\ decodable(files0[abspath(argv[2], cwd)]))
        => (exitcode = 0 /\ DestIsIcon)

\* C3 as amended: a run whose argument, with the blanks around it stripped,
\* is a local path to a decodable image either ends successfully with an
\* RGBA image of 1024 by 1024 at the destination, or ends with status 1
\* because making the destination directory or writing the file failed.
C3_LocalImageSucceedsUnlessIOFails ==
    (/\ Done
     /\ Len(argv) = 2
     /\ ~IsUrl(strip(argv[2]))
     /\ isfile(files0, abspath(strip(argv[2]), cwd))
     /\ decodable(files0[abspath(strip(argv[2]), cwd)]))
        => \/ exitcode = 0 /\ DestIsIcon
           \/ /\ exitcode = 1
              /\ stderr \in {<<Traceback("OSError")>>, <<Traceback("PermissionError")>>}

C3_Witness ==
    /\ Done /\ exitcode = 0 /\ source = "local"
    /\ files0[path].mode = "RGB"
    /\ DestIsIcon

\* C4: a run ends with status 0 exactly when the output file was written;
\* every failure ends it with status 1 and one error description on stderr.
C4_ExitCode ==
    Done =>
       /\ exitcode \in {0, 1}
       /\ exitcode = 0 <=> saved
       /\ saved => (isfile(files, DEST) /\ files[DEST] = PngFile(resized))
       /\ exitcode = 0 => stderr = <<>>
       /\ exitcode = 1 => (Len(stderr) = 1 /\ stderr[1] # <<>>)
       /\ Len(argv) # 2 => (exitcode = 1 /\ stderr = <<USAGE>>)
       /\ (source = "local" /\ ~isfile(files0, path))
             => (exitcode = 1 /\ stderr = <<NotAFile(path)>>)
       /\ (fetched /\ path = <<>>) => exitcode = 1
       /\ (path # <<>> /\ img = None) => exitcode = 1

C4_Witness ==
    /\ Done /\ fetched /\ path = <<>>
    /\ exitcode = 1 /\ stderr = <<Traceback("URLError")>>

\* C5: a run that fails input validation (not exactly one argument, or a
\* non-URL argument that resolves to no regular file) ends with status 1
\* after the usage or "Not a file" message, with the file system as it was:
\* no destination file or directory made or changed, no temporary file,
\* no fetch.
C5_ValidationFailureChangesNothing ==
    (/\ Done
     /\ \/ Len(argv) # 2
        \/ /\ ~(startswith(strip(argv[2]), HTTP_PREFIX)
                  \/ startswith(strip(argv[2]), HTTPS_PREFIX))
           /\ ~isfile(files0, abspath(strip(argv[2]), cwd)))
        => /\ exitcode = 1
           /\ stdout = <<>>
           /\ stderr = IF Len(argv) # 2 THEN <<USAGE>>
                       ELSE <<NotAFile(abspath(strip(argv[2]), cwd))>>
           /\ files = files0
           /\ dirs = dirs0
           /\ tmpname = <<>>
           /\ ~fetched

C5_Witness ==
    /\ Done /\ Len(argv) = 2 /\ source = "local"
    /\ stderr = <<NotAFile(path)>>
    /\ isfile(files, DEST)

\* C6: when the decoding fails, for a local or a URL source, the run ends
\* with an error, and the destination file and the directories are what
\* they were when the run started.
C6_DecodeFailureWritesNothing ==
    (/\ Done
     /\ source \in {"local", "url"}
     /\ path # <<>>
     /\ source = "local" => (isfile(files0, path) /\ ~decodable(files0[path]))
     /\ source = "url" => img = None)
        => /\ exitcode = 1
           /\ stderr = <<Traceback("UnidentifiedImageError")>>
           /\ stdout = <<>>
           /\ SameDest(files, files0)
           /\ dirs = dirs0
           /\ out_path = <<>>

C6_Witness ==
    /\ Done /\ source = "url" /\ path # <<>> /\ img = None
    /\ isfile(files0, DEST)

C8_UrlIffPrefixAsGiven ==
    (Done /\ Len(argv) = 2) =>
       (source = "url" <=>
          (startswith(argv[2], HTTP_PREFIX) \/ startswith(argv[2], HTTPS_PREFIX)))

\* C8 as amended: the argument is fetched as a URL exactly when the string,
\* with the blanks before and after it stripped, starts with "http://" or
\* "https://"; every other argument is taken as a local path.
C8_UrlIffPrefixAfterStrip ==
    (Done /\ Len(argv) = 2) =>
       /\ source = "url" <=>
             (startswith(strip(argv[2]), HTTP_PREFIX)
                \/ startswith(strip(argv[2]), HTTPS_PREFIX))
       /\ source = "local" <=>
             ~(startswith(strip(argv[2]), HTTP_PREFIX)
                \/ startswith(strip(argv[2]), HTTPS_PREFIX))
       /\ source = "local" => (~fetched /\ tmpname = <<>>
                                 /\ path = abspath(strip(argv[2]), cwd))
       /\ fetched => source = "url"

C8_Witness ==
    /\ Done /\ Len(argv) = 2
    /\ argv[2] # <<>> /\ Head(argv[2]) = SP
    /\ source = "url" /\ fetched

C10_StdoutIsThePath ==
    /\ (Done /\ exitcode = 0) => stdout = <<DEST>>
    /\ stdout # <<>> => saved
    /\ (Done /\ exitcode = 1) => stdout = <<>>

\* C10 as amended: on success stdout is one line, "Saved 1024x1024 app
\* icon to " followed by the absolute destination path; nothing is printed
\* before the write has completed or on a failed run.
C10_StdoutIsTheSavedLine ==
    /\ (Done /\ exitcode = 0) =>
          stdout = << <<"Saved 1024x1024 app icon to ">> \o DEST >>
    /\ stdout # <<>> => (saved /\ isfile(files, DEST)
                           /\ files[DEST] = PngFile(resized))
    /\ (Done /\ exitcode = 1) => stdout = <<>>

C10_Witness ==
    /\ Done /\ exitcode = 0 /\ Len(stdout) = 1
    /\ source = "url"

====
